---- MODULE Spec2Model ----
(***************************************************************************)
(* The file-operations engine of src/backend.c over a POSIX file system.   *)
(*                                                                         *)
(* A file system is a function from physical paths (sequences of names,    *)
(* <<>> being the root directory) to nodes.  The system calls the engine   *)
(* makes (stat, opendir, readdir, mkdir, open, read, write, remove, nftw)  *)
(* are operators over that function; the engine's functions are operators  *)
(* written from their code, and every action applies one of them.          *)
(***************************************************************************)
EXTENDS Naturals, Integers, Sequences, FiniteSets, TLC

VARIABLES
    fs,       \* the file system: physical path -> node
    handles,  \* open directory streams, file descriptors and archive handles
    pc,       \* "idle" before the call, "nftw" while delete_item's tree walk is
              \* running, "done" once the call has returned
    walk,     \* the entries nftw has still to hand to unlink_cb
    last,     \* the call: its arguments, the state it started from, its result
    zips      \* the entries of each archive file on disk: physical path -> entries

vars == <<fs, handles, pc, walk, last, zips>>

(***************************************************************************)
(* Bounds of the model.                                                    *)
(***************************************************************************)
MaxQuota == 2      \* blocks the disk can still take during one copy
SYMLOOP_MAX == 2   \* symbolic links followed in one path resolution
PATH_MAX == 5      \* the longest path a system call takes, in components

(***************************************************************************)
(* Nodes.  r: the node can be opened for reading (a directory: enumerated);*)
(* w: a directory accepts the creation and removal of entries, a file can  *)
(* be opened for writing.  content: a file's data as a sequence of blocks, *)
(* one block being what one read() of the copy buffer returns.             *)
(***************************************************************************)
Root == <<>>

File(c) == [kind |-> "file", r |-> TRUE, w |-> TRUE, content |-> c, target |-> <<>>]

Dir(r, w) == [kind |-> "dir", r |-> r, w |-> w, content |-> <<>>, target |-> <<>>]

Link(t) == [kind |-> "link", r |-> TRUE, w |-> TRUE, content |-> <<>>, target |-> t]

\* readdir's order of the names of a directory (fixed, as on one file system)
NameOrder == <<"a", "b", "d", "f", "o", "t", "z">>

Front(p) == SubSeq(p, 1, Len(p) - 1)

Last(p) == p[Len(p)]

IsPrefix(p, q) == Len(p) <= Len(q) /\ SubSeq(q, 1, Len(p)) = p

Only(S) == CHOOSE x \in S : TRUE

Without(f, S) == [q \in DOMAIN f \ S |-> f[q]]

With(f, p, n) == [q \in DOMAIN f \cup {p} |-> IF q = p THEN n ELSE f[q]]

\* the nodes at and beneath physical path p
Subtree(f, p) == {q \in DOMAIN f : IsPrefix(p, q)}

ChildNames(f, p) == SelectSeq(NameOrder, LAMBDA n : Append(p, n) \in DOMAIN f)

(***************************************************************************)
(* Path resolution.  namei walks the components of a path from a resolved  *)
(* directory; a symbolic link met on the way is replaced by its (absolute) *)
(* target, the last component's only when follow.  The result is the set   *)
(* holding the physical path, or {} (ENOENT, ENOTDIR, ELOOP).              *)
(***************************************************************************)
RECURSIVE namei(_, _, _, _, _)
namei(f, cur, rest, follow, hops) ==
    IF rest = <<>> THEN {cur}
    ELSE IF f[cur].kind # "dir" THEN {}
    ELSE LET nxt == Append(cur, Head(rest)) IN
         IF nxt \notin DOMAIN f THEN {}
         ELSE IF f[nxt].kind = "link" /\ (follow \/ Len(rest) > 1)
              THEN IF hops = 0 THEN {}
                   ELSE namei(f, Root, f[nxt].target \o Tail(rest), follow, hops - 1)
              ELSE namei(f, nxt, Tail(rest), follow, hops)

\* a path longer than PATH_MAX is refused by every call (ENAMETOOLONG)
stat(f, p) == IF Len(p) > PATH_MAX THEN {} ELSE namei(f, Root, p, TRUE, SYMLOOP_MAX)

lstat(f, p) == IF Len(p) > PATH_MAX THEN {} ELSE namei(f, Root, p, FALSE, SYMLOOP_MAX)

S_ISDIR(f, st) == st # {} /\ f[Only(st)].kind = "dir"

\* opendir: the physical directory behind the stream, {} when it fails
opendir(f, p) == {q \in stat(f, p) : f[q].kind = "dir" /\ f[q].r}

\* what successive readdir calls on a stream of physical directory q return
readdir(f, q) == <<".", "..">> \o ChildNames(f, q)

\* mkdir(path, mode): the mode's read and write bits are those of node m
mkdir(f, p, m) ==
    LET par == IF p = <<>> THEN {} ELSE stat(f, Front(p))
        ok  == /\ par # {} /\ Len(p) <= PATH_MAX
               /\ f[Only(par)].kind = "dir"
               /\ f[Only(par)].w
               /\ Append(Only(par), Last(p)) \notin DOMAIN f
    IN  IF ok THEN [fs |-> With(f, Append(Only(par), Last(p)), Dir(m.r, m.w)), ret |-> 0]
        ELSE [fs |-> f, ret |-> -1]

\* remove(path): unlink for a non-directory, rmdir for a directory
remove(f, p) ==
    LET l  == lstat(f, p)
        q  == Only(l)
        ok == /\ l # {}
              /\ q # Root
              /\ f[Front(q)].w
              /\ (f[q].kind = "dir" => Subtree(f, q) = {q})
    IN  IF ok THEN [fs |-> Without(f, {q}), ret |-> 0]
        ELSE [fs |-> f, ret |-> -1]

(***************************************************************************)
(* nftw(path, fn, nopenfd, flags): the entries of the tree in the order    *)
(* the walk hands them to fn, each with its type flag.  With FTW_PHYS the  *)
(* walk uses lstat and reports a symbolic link as FTW_SL without entering  *)
(* it; without it the walk follows links, skipping a directory it is       *)
(* already inside.  With FTW_DEPTH a directory is reported after its       *)
(* entries (FTW_DP), otherwise before them (FTW_D).  A directory that      *)
(* cannot be read is reported as FTW_DNR and not descended.                *)
(***************************************************************************)
RECURSIVE ftw_dir(_, _, _, _, _)
RECURSIVE ftw_entries(_, _, _, _)
ftw_dir(f, p, flags, seen, names) ==
    IF names = <<>> THEN <<>>
    ELSE ftw_entries(f, Append(p, Head(names)), flags, seen)
         \o ftw_dir(f, p, flags, seen, Tail(names))

ftw_entries(f, p, flags, seen) ==
    LET st == IF "FTW_PHYS" \in flags \/ stat(f, p) = {} THEN lstat(f, p) ELSE stat(f, p)
        q  == Only(st)
    IN  IF st = {} \/ st \subseteq seen THEN <<>>
        ELSE IF f[q].kind = "dir"
        THEN IF ~f[q].r THEN <<[path |-> p, flag |-> "FTW_DNR"]>>
             ELSE IF "FTW_DEPTH" \in flags
                  THEN ftw_dir(f, p, flags, seen \cup st, ChildNames(f, q))
                       \o <<[path |-> p, flag |-> "FTW_DP"]>>
                  ELSE <<[path |-> p, flag |-> "FTW_D"]>>
                       \o ftw_dir(f, p, flags, seen \cup st, ChildNames(f, q))
        ELSE <<[path |-> p, flag |-> IF f[q].kind = "link" THEN "FTW_SL" ELSE "FTW_F"]>>

(***************************************************************************)
(* rename(old, new).  The last component of old is not followed; new's     *)
(* directory is resolved.  When both name the same entry nothing happens   *)
(* and 0 is returned.  Otherwise both directories must be writable, a      *)
(* directory cannot go beneath itself, an entry at new is replaced when it *)
(* is of the same sort (a directory only when empty), and the whole        *)
(* subtree moves.  xdev: old and new are on different volumes (EXDEV).     *)
(***************************************************************************)
rename(f, old, new, xdev) ==
    LET l   == lstat(f, old)
        q   == Only(l)
        par == IF new = Root THEN {} ELSE stat(f, Front(new))
        n   == Append(Only(par), Last(new))
        ok  == /\ l # {} /\ q # Root
               /\ S_ISDIR(f, par) /\ Len(new) <= PATH_MAX
               /\ ~xdev
               /\ \/ n = q
                  \/ /\ f[Front(q)].w /\ f[Only(par)].w
                     /\ ~IsPrefix(q, n)
                     /\ (f[q].kind = "dir" /\ Front(q) # Only(par)) => f[q].w
                     /\ n \in DOMAIN f =>
                           IF f[q].kind = "dir"
                           THEN f[n].kind = "dir" /\ Subtree(f, n) = {n}
                           ELSE f[n].kind # "dir"
        to(y)   == n \o SubSeq(y, Len(q) + 1, Len(y))
        from(x) == q \o SubSeq(x, Len(n) + 1, Len(x))
    IN  IF ~ok THEN [fs |-> f, ret |-> -1]
        ELSE IF n = q THEN [fs |-> f, ret |-> 0]
        ELSE [fs |-> [x \in (DOMAIN f \ (Subtree(f, q) \cup Subtree(f, n)))
                             \cup {to(y) : y \in Subtree(f, q)}
                         |-> IF IsPrefix(n, x) THEN f[from(x)] ELSE f[x]],
              ret |-> 0]

(***************************************************************************)
(* create_directory_item, create_file_item, rename_item, move_item.        *)
(***************************************************************************)
\* open(path, O_WRONLY | O_CREAT | O_EXCL, 0644): fails when anything, a
\* symbolic link included, is at the path
open_excl_without_excl(f, p) ==
    LET par == IF p = Root THEN {} ELSE stat(f, Front(p))
        q   == Append(Only(par), Last(p))
    IN  IF S_ISDIR(f, par) /\ (q \in DOMAIN f => f[q].kind = "file" /\ f[q].w)
           /\ (q \notin DOMAIN f => f[Only(par)].w)
        THEN [fs |-> With(f, q, File(<<>>)), fd |-> {q}]
        ELSE [fs |-> f, fd |-> {}]

open_excl(f, p) ==
    LET par == IF p = Root THEN {} ELSE stat(f, Front(p))
        q   == Append(Only(par), Last(p))
    IN  IF S_ISDIR(f, par) /\ Len(p) <= PATH_MAX /\ f[Only(par)].w /\ q \notin DOMAIN f
        THEN [fs |-> With(f, q, File(<<>>)), fd |-> {q}]
        ELSE [fs |-> f, fd |-> {}]

create_directory_item(f, parent_dir, dir_name) ==
    LET path == Append(parent_dir, dir_name)
        m    == mkdir(f, path, Dir(TRUE, TRUE))
    IN  [fs |-> m.fs, ret |-> (m.ret = 0)]

\* h: the handles open at return
create_file_item(f, parent_dir, file_name, h) ==
    LET path == Append(parent_dir, file_name)
        o    == open_excl(f, path)
    IN  IF o.fd # {} THEN [fs |-> o.fs, ret |-> TRUE, h |-> (h + 1) - 1]
        ELSE [fs |-> o.fs, ret |-> FALSE, h |-> h]

\* new_name is the text the caller gives, as the sequence of its components:
\* one name, or more when the text holds a separator
rename_item(f, old_path, new_name) ==
    LET dir      == Front(old_path)
        new_path == dir \o new_name
        r        == rename(f, old_path, new_path, FALSE)
    IN  [fs |-> r.fs, ret |-> (r.ret = 0)]

move_item_across_volumes(f, src_path, dest_dir, xdev) ==
    LET base      == Last(src_path)
        dest_path == Append(dest_dir, base)
        r         == rename(f, src_path, dest_path, FALSE)
    IN  [fs |-> r.fs, ret |-> (r.ret = 0)]

move_item(f, src_path, dest_dir, xdev) ==
    LET base      == Last(src_path)
        dest_path == Append(dest_dir, base)
        r         == rename(f, src_path, dest_path, xdev)
    IN  [fs |-> r.fs, ret |-> (r.ret = 0)]

(***************************************************************************)
(* delete_item and its callback.                                           *)
(***************************************************************************)
\* the flags delete_item passes to nftw
nftw_flags_follow == {"FTW_DEPTH"}

nftw_flags_preorder == {"FTW_PHYS"}

nftw_flags == {"FTW_DEPTH", "FTW_PHYS"}

\* unlink_cb returns remove's result, which nftw takes as "stop" when not 0
unlink_cb_ignore(f, fpath) == [fs |-> remove(f, fpath).fs, ret |-> 0]

unlink_cb(f, fpath) == remove(f, fpath)

\* an entry of the walk's log: whether the entry still held entries when
\* remove was called on it, and what remove returned
Attempt(f, e, r) ==
    [path |-> e.path, flag |-> e.flag, ret |-> r,
     nonempty |-> LET l == lstat(f, e.path) IN l # {} /\ Subtree(f, Only(l)) # l]

\* the record of a call: the operation, its arguments (src, dst, name; env and
\* xdev are what the system does during the call), the file system and the
\* handles it started from, its result, and what it did on the way (the log
\* of a walk, the nesting depth of a copy); size is format_size's argument
NoCall == [op |-> "none", src |-> <<>>, dst |-> <<>>, name |-> <<>>,
           env |-> [quota |-> 0, eio |-> {}], xdev |-> FALSE, ret |-> FALSE,
           pre |-> <<>>, h0 |-> 0, out |-> <<>>, plan |-> <<>>, log |-> <<>>,
           nth |-> 1, first |-> FALSE, depth |-> 0, size |-> 0]

\* the paths a caller hands to the engine: an existing entry, or one that is gone
PathArgs(f) == (DOMAIN f \ {Root}) \cup {<<"t", "x">>}

DirArgs(f) == {p \in DOMAIN f : f[p].kind = "dir"}

\* delete_item(path): nftw starts; it fails at once when path cannot be lstat'ed
DeleteItem(path) ==
    /\ pc = "idle"
    /\ LET order == ftw_entries(fs, path, nftw_flags, {})
           c     == [NoCall EXCEPT !.op = "delete_item", !.src = path, !.pre = fs,
                                   !.h0 = handles, !.plan = order]
       IN  IF order = <<>>
           THEN /\ pc' = "done" /\ walk' = <<>>
                /\ last' = [c EXCEPT !.ret = FALSE]
           ELSE /\ pc' = "nftw" /\ walk' = order
                /\ last' = c
    /\ UNCHANGED <<fs, handles, zips>>

\* one step of the walk: fn is called on the next entry; a result other than 0
\* ends the walk and is nftw's result; after the last entry nftw returns 0.
\* delete_item returns TRUE exactly when nftw returned 0.
NftwStep ==
    /\ pc = "nftw"
    /\ LET e == Head(walk)
           r == unlink_cb(fs, e.path)
           l == Append(last.log, Attempt(fs, e, r.ret))
       IN  /\ fs' = r.fs
           /\ IF r.ret # 0
              THEN /\ pc' = "done" /\ walk' = <<>>
                   /\ last' = [last EXCEPT !.log = l, !.ret = FALSE]
              ELSE IF Tail(walk) = <<>>
              THEN /\ pc' = "done" /\ walk' = <<>>
                   /\ last' = [last EXCEPT !.log = l, !.ret = TRUE]
              ELSE /\ pc' = "nftw" /\ walk' = Tail(walk)
                   /\ last' = [last EXCEPT !.log = l]
    /\ UNCHANGED <<handles, zips>>

(***************************************************************************)
(* format_size.  A string is the sequence of its characters.  "%ld" writes *)
(* the decimal digits of an integer; "%.1f" writes a value rounded to the  *)
(* nearest tenth, a tie going to the even tenth.  The value size / 1024    *)
(* (or / (1024 * 1024)) is exact in a double for every size below 2^53, so *)
(* the rounding is that of the quotient itself.                            *)
(***************************************************************************)
KB == 1024

MB == KB * KB

\* the bytes one read() of copy_file_content's buffer takes
BufSize == 8192

Digit(d) == <<"0", "1", "2", "3", "4", "5", "6", "7", "8", "9">>[d + 1]

\* "%ld" of a number that is not negative
RECURSIVE Dec(_)
Dec(n) == IF n < 10 THEN <<Digit(n)>> ELSE Append(Dec(n \div 10), Digit(n % 10))

\* the tenths "%.1f" of num / den shows
Tenths_truncating(num, den) == (10 * num) \div den

Tenths(num, den) ==
    LET q == (10 * num) \div den
        r == (10 * num) % den
    IN  IF 2 * r > den \/ (2 * r = den /\ q % 2 = 1) THEN q + 1 ELSE q

\* "%.1f" of num / den
Fixed1(num, den) ==
    Dec(Tenths(num, den) \div 10) \o <<".", Digit(Tenths(num, den) % 10)>>

format_size(size) ==
    IF size < KB THEN Dec(size) \o <<" ", "B">>
    ELSE IF size < KB * KB THEN Fixed1(size, KB) \o <<" ", "K", "B">>
    ELSE Fixed1(size, KB * KB) \o <<" ", "M", "B">>

\* st.st_size of a file: its blocks are full ones
st_size(n) == BufSize * Len(n.content)

(***************************************************************************)
(* get_directory_contents.  The GList it returns is a sequence; NULL is    *)
(* the empty sequence.  A FileInfo starts zeroed (g_new0): the fields stat *)
(* would fill stay NULL / FALSE when stat fails.                           *)
(***************************************************************************)
NULL == "NULL"

\* the filter on readdir's names in the loop
is_dot(name) == name = "." \/ name = ".."

\* the flag stat's mode gives: stat follows a symbolic link
info_is_dir_lstat(f, path) == S_ISDIR(f, lstat(f, path))

info_is_dir(f, path) == S_ISDIR(f, stat(f, path))

\* the FileInfo built for one name of the directory
file_info(f, path, name) ==
    LET p == Append(path, name) IN
    IF stat(f, p) # {}
    THEN [name |-> name, path |-> p, is_dir |-> info_is_dir(f, p),
          type |-> IF info_is_dir(f, p) THEN "Directory" ELSE "File",
          size_formatted |-> IF info_is_dir(f, p) THEN <<>>
                             ELSE format_size(st_size(f[Only(stat(f, p))]))]
    ELSE [name |-> name, path |-> p, is_dir |-> FALSE, type |-> NULL,
          size_formatted |-> NULL]

RECURSIVE list_loop(_, _, _, _)
list_loop(f, path, names, list) ==
    IF names = <<>> THEN list
    ELSE IF is_dot(Head(names)) THEN list_loop(f, path, Tail(names), list)
    ELSE list_loop(f, path, Tail(names), Append(list, file_info(f, path, Head(names))))

\* list: the returned GList; h: the handles open at return
get_directory_contents(f, path, h) ==
    LET d == opendir(f, path) IN
    IF d = {} THEN [list |-> <<>>, h |-> h]
    ELSE [list |-> list_loop(f, path, readdir(f, Only(d)), <<>>), h |-> (h + 1) - 1]

GetDirectoryContents(path) ==
    /\ pc = "idle"
    /\ LET r == get_directory_contents(fs, path, handles) IN
       /\ handles' = r.h
       /\ last' = [NoCall EXCEPT !.op = "get_directory_contents", !.src = path, !.pre = fs,
                                 !.h0 = handles, !.out = r.list,
                                 !.ret = (r.list # <<>>)]
    /\ pc' = "done"
    /\ UNCHANGED <<fs, walk, zips>>

(***************************************************************************)
(* open().  Both follow symbolic links.  open_rd is the set holding the    *)
(* physical node behind the descriptor, {} when open fails.  creat_target  *)
(* is the physical path O_CREAT names: a dangling link is followed to the  *)
(* path it points to.  open_wr (O_WRONLY | O_CREAT | O_TRUNC) empties an   *)
(* existing file or creates an empty one.                                  *)
(***************************************************************************)
open_rd(f, p) == {q \in stat(f, p) : f[q].r}

RECURSIVE creat_target(_, _, _)
creat_target(f, p, hops) ==
    IF p = Root THEN {Root}
    ELSE LET par == stat(f, Front(p)) IN
         IF par = {} \/ ~S_ISDIR(f, par) \/ Len(p) > PATH_MAX THEN {}
         ELSE LET nxt == Append(Only(par), Last(p)) IN
              IF nxt \in DOMAIN f /\ f[nxt].kind = "link"
              THEN IF hops = 0 THEN {} ELSE creat_target(f, f[nxt].target, hops - 1)
              ELSE {nxt}

open_wr(f, p) ==
    LET t == creat_target(f, p, SYMLOOP_MAX)
        q == Only(t)
    IN  IF t = {} THEN [fs |-> f, fd |-> {}]
        ELSE IF q \in DOMAIN f
        THEN IF f[q].kind = "file" /\ f[q].w
             THEN [fs |-> With(f, q, [f[q] EXCEPT !.content = <<>>]), fd |-> t]
             ELSE [fs |-> f, fd |-> {}]
        ELSE IF f[Front(q)].w
             THEN [fs |-> With(f, q, File(<<>>)), fd |-> t]
             ELSE [fs |-> f, fd |-> {}]

(***************************************************************************)
(* copy_file_content.  env.quota: the blocks the disk still takes (a write *)
(* beyond it is short); env.eio: the files whose read() fails.  h counts   *)
(* the open handles.                                                       *)
(***************************************************************************)
\* read(src_fd) at block offset pos: -1 an error, 0 end of file, 1 a block
read(f, s, pos, env) ==
    IF f[s].kind # "file" \/ s \in env.eio THEN -1
    ELSE IF pos >= Len(f[s].content) THEN 0
    ELSE 1

\* the while loop: the file system, the last read's result, whether a write
\* was short, and what is left of the quota
RECURSIVE copy_loop(_, _, _, _, _)
copy_loop(f, s, d, pos, env) ==
    LET nread == read(f, s, pos, env) IN
    IF nread <= 0 THEN [fs |-> f, nread |-> nread, short |-> FALSE, env |-> env]
    ELSE IF env.quota = 0 THEN [fs |-> f, nread |-> nread, short |-> TRUE, env |-> env]
    ELSE copy_loop(With(f, d, [f[d] EXCEPT !.content = Append(@, f[s].content[pos + 1])]),
                   s, d, pos + 1, [env EXCEPT !.quota = @ - 1])

copy_file_content(f, src, dst, env, h) ==
    LET src_fd == open_rd(f, src) IN
    IF src_fd = {} THEN [fs |-> f, ret |-> FALSE, h |-> h, env |-> env]
    ELSE LET o == open_wr(f, dst) IN
         IF o.fd = {} THEN [fs |-> f, ret |-> FALSE, h |-> (h + 1) - 1, env |-> env]
         ELSE LET l == copy_loop(o.fs, Only(src_fd), Only(o.fd), 0, env) IN
              IF l.short
              THEN [fs |-> l.fs, ret |-> FALSE, h |-> (h + 2) - 2, env |-> l.env]
              ELSE [fs |-> l.fs, ret |-> (l.nread = 0), h |-> (h + 2) - 2, env |-> l.env]

(***************************************************************************)
(* copy_item.  stat's result is not checked: when stat fails, st is read   *)
(* uninitialized, so the branch taken and the mode handed to mkdir are any *)
(* value; copy_item is therefore the set of its possible outcomes.  The    *)
(* results of mkdir and of a failed opendir are dropped, as in the code.   *)
(* depth is the number of copy_item calls nested at the deepest point.     *)
(***************************************************************************)
\* what S_ISDIR(st.st_mode) and st.st_mode can be after stat(src_path, &st)
st_after_stat(f, src_path) ==
    LET st == stat(f, src_path) IN
    IF st # {} THEN {[isdir |-> f[Only(st)].kind = "dir", mode |-> f[Only(st)]]}
    ELSE {[isdir |-> b, mode |-> Dir(r, w)] : b \in BOOLEAN, r \in BOOLEAN, w \in BOOLEAN}

RECURSIVE copy_item(_, _, _, _, _)
RECURSIVE copy_dir_loop(_, _, _, _)
\* the readdir loop over names, from each outcome so far in S
copy_dir_loop(src_path, dest_path, names, S) ==
    IF names = <<>> THEN S
    ELSE IF is_dot(Head(names)) THEN copy_dir_loop(src_path, dest_path, Tail(names), S)
    ELSE copy_dir_loop(src_path, dest_path, Tail(names),
           UNION {{[o EXCEPT !.ret = s.ret /\ o.ret,
                             !.depth = IF o.depth + 1 > s.depth THEN o.depth + 1 ELSE s.depth] :
                      o \in copy_item(s.fs, Append(src_path, Head(names)), dest_path,
                                      s.env, s.h)} : s \in S})

copy_item(f, src_path, dest_dir, env, h) ==
    LET base      == Last(src_path)
        dest_path == Append(dest_dir, base)
    IN  UNION {
          IF st.isdir
          THEN LET m == mkdir(f, dest_path, st.mode)
                   d == opendir(m.fs, src_path)
               IN  IF d = {}
                   THEN {[fs |-> m.fs, ret |-> TRUE, h |-> h, env |-> env, depth |-> 1]}
                   ELSE {[o EXCEPT !.h = @ - 1] :
                            o \in copy_dir_loop(src_path, dest_path, readdir(m.fs, Only(d)),
                                     {[fs |-> m.fs, ret |-> TRUE, h |-> h + 1, env |-> env,
                                       depth |-> 1]})}
          ELSE LET c == copy_file_content(f, src_path, dest_path, env, h) IN
               {[fs |-> c.fs, ret |-> c.ret, h |-> c.h, env |-> c.env, depth |-> 1]}
          : st \in st_after_stat(f, src_path)}

\* the files whose read fails during one call: none, or one file
EioArgs(f) == {{}} \cup {{q} : q \in {x \in DOMAIN f : f[x].kind = "file"}}

\* the nodes a walk from the nodes of S meets when it follows symbolic links
RECURSIVE Reach(_, _)
Reach(f, S) ==
    LET T == S \cup {q \in DOMAIN f : q # Root /\ Front(q) \in S}
               \cup UNION {stat(f, q) : q \in S}
    IN  IF T = S THEN S ELSE Reach(f, T)

\* copy_item(src_path, dest_dir), as on_paste calls it: the copied path and
\* the directory shown, which may be the one the source is in, the source
\* itself or a directory beneath it.  A read error, if any, is in a file the
\* walk of the source meets, and then the disk is not short of room as well.
CopyItem(src_path, dest_dir, quota, eio) ==
    /\ pc = "idle"
    /\ eio \subseteq Reach(fs, lstat(fs, src_path))
    /\ eio = {} \/ quota = MaxQuota
    /\ \E o \in copy_item(fs, src_path, dest_dir, [quota |-> quota, eio |-> eio], handles) :
         /\ fs' = o.fs
         /\ handles' = o.h
         /\ last' = [NoCall EXCEPT !.op = "copy_item", !.src = src_path, !.dst = dest_dir,
                                   !.env = [quota |-> quota, eio |-> eio],
                                   !.pre = fs, !.h0 = handles, !.ret = o.ret,
                                   !.depth = o.depth]
    /\ pc' = "done"
    /\ UNCHANGED <<walk, zips>>

(***************************************************************************)
(* The archive library.  An entry name is a string, kept as the sequence   *)
(* of its pieces (names and "/"), so that g_strconcat is \o.  zip_dir_add  *)
(* appends the "/" a directory name lacks; both adds fail on a name the    *)
(* archive already holds.  zip_source_file only records the path: the file *)
(* is opened and read by zip_close, which fails, leaving the archive       *)
(* handle allocated and the disk unchanged, when a source cannot be read   *)
(* or the archive cannot be written.                                       *)
(***************************************************************************)
zip_has(entries, name) == \E i \in 1..Len(entries) : entries[i].name = name

zip_dir_add(entries, name) ==
    LET n == IF name # <<>> /\ Last(name) = "/" THEN name ELSE Append(name, "/") IN
    IF zip_has(entries, n) THEN entries
    ELSE Append(entries, [name |-> n, dir |-> TRUE, src |-> <<>>])

zip_file_add(entries, name, source) ==
    IF zip_has(entries, name) THEN entries
    ELSE Append(entries, [name |-> name, dir |-> FALSE, src |-> source])

\* the flags zip_item passes to zip_open
zip_flags == {"ZIP_CREATE", "ZIP_TRUNCATE"}

\* zip_open(path, flags): whether the archive handle is got, and the entries
\* it starts with.  ZIP_CREATE allows a path at which nothing is; with
\* ZIP_TRUNCATE what is at the path is ignored, without it the path must hold
\* an archive, whose entries are kept.
zip_open(f, z, dest, flags) ==
    LET st == stat(f, dest) IN
    IF S_ISDIR(f, st) THEN [ok |-> FALSE, entries |-> <<>>]
    ELSE IF st = {} THEN [ok |-> "ZIP_CREATE" \in flags, entries |-> <<>>]
    ELSE IF "ZIP_TRUNCATE" \in flags THEN [ok |-> TRUE, entries |-> <<>>]
    ELSE IF Only(st) \in DOMAIN z THEN [ok |-> TRUE, entries |-> z[Only(st)]]
    ELSE [ok |-> FALSE, entries |-> <<>>]

zip_close(f, z, entries, dest) ==
    LET par  == IF dest = Root THEN {} ELSE stat(f, Front(dest))
        q    == Append(Only(par), Last(dest))
        srcs == \A i \in 1..Len(entries) :
                   entries[i].dir \/ \E x \in open_rd(f, entries[i].src) : f[x].kind = "file"
        ok   == /\ srcs
                /\ S_ISDIR(f, par) /\ f[Only(par)].w
                /\ (q \in DOMAIN f => f[q].kind # "dir")
    IN  IF ok
        THEN [fs |-> With(f, q, File(<<>>)),
              zips |-> [x \in DOMAIN z \cup {q} |-> IF x = q THEN entries ELSE z[x]],
              ret |-> 0]
        ELSE [fs |-> f, zips |-> z, ret |-> -1]

(***************************************************************************)
(* add_to_zip_recursive and zip_item.  stat's result is not checked here   *)
(* either, so both are sets of outcomes: the entries added and the open    *)
(* handles.                                                                *)
(***************************************************************************)
RECURSIVE add_to_zip_recursive(_, _, _, _, _)
RECURSIVE add_to_zip_loop(_, _, _, _, _)
add_to_zip_loop(f, base_path_in_fs, parent_path_in_zip, names, S) ==
    IF names = <<>> THEN S
    ELSE IF is_dot(Head(names))
    THEN add_to_zip_loop(f, base_path_in_fs, parent_path_in_zip, Tail(names), S)
    ELSE LET full_fs_path  == Append(base_path_in_fs, Head(names))
             full_zip_path == parent_path_in_zip \o <<Head(names)>>
         IN  add_to_zip_loop(f, base_path_in_fs, parent_path_in_zip, Tail(names),
               UNION {UNION {
                   IF st.isdir
                   THEN add_to_zip_recursive(f, zip_dir_add(s.entries, full_zip_path),
                                             full_fs_path, full_zip_path \o <<"/">>, s.h)
                   ELSE {[entries |-> zip_file_add(s.entries, full_zip_path, full_fs_path),
                          h |-> s.h]}
                   : st \in st_after_stat(f, full_fs_path)} : s \in S})

add_to_zip_recursive(f, entries, base_path_in_fs, parent_path_in_zip, h) ==
    LET d == opendir(f, base_path_in_fs) IN
    IF d = {} THEN {[entries |-> entries, h |-> h]}
    ELSE {[o EXCEPT !.h = @ - 1] :
             o \in add_to_zip_loop(f, base_path_in_fs, parent_path_in_zip,
                                   readdir(f, Only(d)), {[entries |-> entries, h |-> h + 1]})}

\* the outcomes of zip_item: file system, archives, result, open handles
zip_item(f, z, src_path, dest_zip_path, h) ==
    LET zip == zip_open(f, z, dest_zip_path, zip_flags) IN
    IF ~zip.ok THEN {[fs |-> f, zips |-> z, ret |-> FALSE, h |-> h]}
    ELSE LET base  == <<Last(src_path)>>
             added == UNION {
                 IF st.isdir
                 THEN add_to_zip_recursive(f, zip_dir_add(zip.entries, base), src_path,
                                           base \o <<"/">>, h + 1)
                 ELSE {[entries |-> zip_file_add(zip.entries, base, src_path), h |-> h + 1]}
                 : st \in st_after_stat(f, src_path)}
         IN  {LET c == zip_close(f, z, a.entries, dest_zip_path) IN
              [fs |-> c.fs, zips |-> c.zips, ret |-> (c.ret = 0),
               h |-> IF c.ret = 0 THEN a.h - 1 ELSE a.h] : a \in added}

\* where on_zip puts the archive: <name>.zip in a directory
ZipArgs(f) == {Append(d, "z") : d \in DirArgs(f)}

ZipItem(src_path, dest_zip_path) ==
    /\ pc = "idle"
    /\ \E o \in zip_item(fs, zips, src_path, dest_zip_path, handles) :
         /\ fs' = o.fs
         /\ zips' = o.zips
         /\ handles' = o.h
         /\ last' = [NoCall EXCEPT !.op = "zip_item", !.src = src_path, !.dst = dest_zip_path,
                                   !.pre = fs, !.h0 = handles, !.ret = o.ret]
    /\ pc' = "done"
    /\ UNCHANGED walk

(***************************************************************************)
(* The calls of the small operations.  on_create_file and on_create_folder *)
(* pass the directory shown and the name typed, on_rename the selected     *)
(* path and the text typed, on_paste (after a cut) the cut path and the    *)
(* directory shown.  A creation may be called a second time with the same  *)
(* arguments; nth and first then tell the second call from the first.      *)
(***************************************************************************)
NameArgs == {"a", "z"}

NewNameArgs == {<<>>, <<"a">>, <<"b">>, <<"z">>, <<"a", "z">>}

Again(op, parent_dir, name) ==
    /\ pc = "done" /\ last.op = op /\ last.nth = 1
    /\ last.dst = parent_dir /\ last.name = <<name>>

CreateDirectoryItem(parent_dir, dir_name) ==
    /\ pc = "idle" \/ Again("create_directory_item", parent_dir, dir_name)
    /\ LET r == create_directory_item(fs, parent_dir, dir_name) IN
       /\ fs' = r.fs
       /\ last' = [NoCall EXCEPT !.op = "create_directory_item", !.dst = parent_dir,
                                 !.name = <<dir_name>>, !.pre = fs, !.h0 = handles,
                                 !.ret = r.ret,
                                 !.nth = IF pc = "idle" THEN 1 ELSE 2,
                                 !.first = IF pc = "idle" THEN r.ret ELSE last.ret]
    /\ pc' = "done"
    /\ UNCHANGED <<handles, walk, zips>>

CreateFileItem(parent_dir, file_name) ==
    /\ pc = "idle" \/ Again("create_file_item", parent_dir, file_name)
    /\ LET r == create_file_item(fs, parent_dir, file_name, handles) IN
       /\ fs' = r.fs
       /\ handles' = r.h
       /\ last' = [NoCall EXCEPT !.op = "create_file_item", !.dst = parent_dir,
                                 !.name = <<file_name>>, !.pre = fs, !.h0 = handles,
                                 !.ret = r.ret,
                                 !.nth = IF pc = "idle" THEN 1 ELSE 2,
                                 !.first = IF pc = "idle" THEN r.ret ELSE last.ret]
    /\ pc' = "done"
    /\ UNCHANGED <<walk, zips>>

RenameItem(old_path, new_name) ==
    /\ pc = "idle"
    /\ LET r == rename_item(fs, old_path, new_name) IN
       /\ fs' = r.fs
       /\ last' = [NoCall EXCEPT !.op = "rename_item", !.src = old_path, !.name = new_name,
                                 !.pre = fs, !.h0 = handles, !.ret = r.ret]
    /\ pc' = "done"
    /\ UNCHANGED <<handles, walk, zips>>

MoveItem(src_path, dest_dir, xdev) ==
    /\ pc = "idle"
    /\ LET r == move_item(fs, src_path, dest_dir, xdev) IN
       /\ fs' = r.fs
       /\ last' = [NoCall EXCEPT !.op = "move_item", !.src = src_path, !.dst = dest_dir,
                                 !.xdev = xdev, !.pre = fs, !.h0 = handles, !.ret = r.ret]
    /\ pc' = "done"
    /\ UNCHANGED <<handles, walk, zips>>

(***************************************************************************)
(* The file systems a behaviour starts from: a root holding the tree t,    *)
(* a directory d to copy into and a directory o outside both, with one     *)
(* file.  t holds a and b, each of several kinds; one defect at most is    *)
(* applied: a directory without read or write permission, an unreadable    *)
(* file, an entry already at d/t, or an archive already at d/z.            *)
(***************************************************************************)
Base ==
    (Root :> Dir(TRUE, TRUE)) @@ (<<"t">> :> Dir(TRUE, TRUE)) @@ (<<"d">> :> Dir(TRUE, TRUE))
    @@ (<<"o">> :> Dir(TRUE, TRUE)) @@ (<<"o", "f">> :> File(<<3>>))

AKinds == {"none", "file", "dir", "dirf", "link", "linkf", "dangling", "loop"}

BKinds == {"none", "file"}

Defects == {"none", "t_nr", "t_nw", "a_nr", "a_nw", "b_nr", "d_nw", "d_t_dir", "d_t_file",
            "d_t_full", "d_z"}

EntryA(k) ==
    CASE k = "file"     -> (<<"t", "a">> :> File(<<1, 2>>))
      [] k = "dir"      -> (<<"t", "a">> :> Dir(TRUE, TRUE))
      [] k = "dirf"     -> (<<"t", "a">> :> Dir(TRUE, TRUE)) @@ (<<"t", "a", "f">> :> File(<<1>>))
      [] k = "link"     -> (<<"t", "a">> :> Link(<<"o">>))
      [] k = "linkf"    -> (<<"t", "a">> :> Link(<<"o", "f">>))
      [] k = "dangling" -> (<<"t", "a">> :> Link(<<"o", "x">>))
      [] k = "loop"     -> (<<"t", "a">> :> Link(<<"t">>))
      [] OTHER          -> <<>>

EntryB(k) == IF k = "file" THEN (<<"t", "b">> :> File(<<2>>)) ELSE <<>>

\* a symbolic link has no permissions of its own
Chmod(f, p, r, w) ==
    IF p \in DOMAIN f /\ f[p].kind # "link"
    THEN With(f, p, [f[p] EXCEPT !.r = r, !.w = w])
    ELSE f

Defect(f, x) ==
    CASE x = "t_nr"     -> Chmod(f, <<"t">>, FALSE, TRUE)
      [] x = "t_nw"     -> Chmod(f, <<"t">>, TRUE, FALSE)
      [] x = "a_nr"     -> Chmod(f, <<"t", "a">>, FALSE, TRUE)
      [] x = "a_nw"     -> Chmod(f, <<"t", "a">>, TRUE, FALSE)
      [] x = "b_nr"     -> Chmod(f, <<"t", "b">>, FALSE, TRUE)
      [] x = "d_nw"     -> Chmod(f, <<"d">>, TRUE, FALSE)
      [] x = "d_t_dir"  -> With(f, <<"d", "t">>, Dir(TRUE, TRUE))
      [] x = "d_t_file" -> With(f, <<"d", "t">>, File(<<3>>))
      [] x = "d_t_full" -> With(With(f, <<"d", "t">>, Dir(TRUE, TRUE)),
                                <<"d", "t", "o">>, File(<<3>>))
      [] x = "d_z"      -> With(f, <<"d", "z">>, File(<<>>))
      [] OTHER          -> f

\* the entries of the archive that is at d/z when a file is there
OldArchive == <<[name |-> <<"old">>, dir |-> FALSE, src |-> <<"o", "f">>]>>

InitialFileSystems ==
    {Defect(EntryA(a) @@ EntryB(b) @@ Base, x) : a \in AKinds, b \in BKinds, x \in Defects}

Init ==
    /\ fs \in InitialFileSystems
    /\ handles = 0
    /\ pc = "idle"
    /\ walk = <<>>
    /\ last = NoCall
    /\ zips = [q \in DOMAIN fs \cap {<<"d", "z">>} |-> OldArchive]

Next ==
    \/ \E p \in PathArgs(fs) : DeleteItem(p)
    \/ NftwStep
    \/ \E p \in PathArgs(fs) : GetDirectoryContents(p)
    \/ \E s \in PathArgs(fs), d \in DirArgs(fs), q \in 0..MaxQuota, e \in EioArgs(fs) :
          CopyItem(s, d, q, e)
    \/ \E s \in PathArgs(fs), z \in ZipArgs(fs) : ZipItem(s, z)
    \/ \E d \in DirArgs(fs), n \in NameArgs : CreateDirectoryItem(d, n)
    \/ \E d \in DirArgs(fs), n \in NameArgs : CreateFileItem(d, n)
    \/ \E p \in PathArgs(fs), n \in NewNameArgs : RenameItem(p, n)
    \/ \E s \in PathArgs(fs), d \in DirArgs(fs), x \in BOOLEAN : MoveItem(s, d, x)

Spec == Init /\ [][Next]_vars

(***************************************************************************)
(* format_size on its own: the sizes it is applied to, in a file system    *)
(* without a defect, next to the listings that call it.                    *)
(***************************************************************************)
SizeArgs ==
    (0 .. 12) \cup {99, 100, 500, 999, 1000} \cup (1020 .. 1030) \cup {1075, 1076, 1280, 1792, 2048}
    \cup {n * 256 : n \in 5 .. 12} \cup {10188, 10189, 102400, 1023999}
    \cup ((MB - 60) .. (MB + 60)) \cup {MB + MB \div 4, 3 * MB, 3145728, 50 * MB}

FormatSize(size) ==
    /\ pc = "idle"
    /\ last' = [NoCall EXCEPT !.op = "format_size", !.size = size, !.out = format_size(size),
                              !.pre = fs, !.h0 = handles]
    /\ pc' = "done"
    /\ UNCHANGED <<fs, handles, walk, zips>>

InitSize ==
    /\ Init
    /\ fs \in {EntryA(a) @@ EntryB(b) @@ Base : a \in AKinds, b \in BKinds}

NextSize ==
    \/ \E n \in SizeArgs : FormatSize(n)
    \/ \E p \in PathArgs(fs) : GetDirectoryContents(p)

SpecSize == InitSize /\ [][NextSize]_vars

(***************************************************************************)
(* Properties.                                                             *)
(***************************************************************************)
Returned(op) == pc = "done" /\ last.op = op

\* the physical nodes of the tree a call was given, in the state it started from
TreeBefore == UNION {Subtree(last.pre, q) : q \in lstat(last.pre, last.src)}

Failed(i) == last.log[i].ret # 0

ProperAncestor(p, q) == IsPrefix(p, q) /\ p # q

\* C1: the walk goes on after a removal has failed, so that when delete_item
\* returns remove has been called on every entry that is not an ancestor of a
\* failed one; hence no entry of the walk is left that remove would take away:
\* every removable file and every directory that became empty is gone.
C1_ContinuesAfterFailure ==
    Returned("delete_item") =>
        \A i \in 1..Len(last.plan) : remove(fs, last.plan[i].path).ret # 0

\* C2: delete_item returns TRUE exactly when the path existed and it and all
\* beneath it are gone afterwards, which is exactly when remove was called on
\* every entry of the walk and never failed; it returns FALSE when a removal
\* failed or the walk could not start.
C2_DeleteResult ==
    Returned("delete_item") =>
        /\ last.ret <=> (TreeBefore # {} /\ TreeBefore \cap DOMAIN fs = {})
        /\ last.ret <=> /\ last.plan # <<>>
                        /\ Len(last.log) = Len(last.plan)
                        /\ \A j \in 1..Len(last.log) : ~Failed(j)
        /\ (\E j \in 1..Len(last.log) : Failed(j)) => ~last.ret
        /\ TreeBefore = {} => ~last.ret

C2_Witness ==
    /\ Returned("delete_item") /\ last.ret
    /\ Cardinality(TreeBefore) >= 4
    /\ \E q \in TreeBefore : last.pre[q].kind = "dir" /\ Len(q) = 2

(***************************************************************************)
(* The shape of the tree a path names, as a reader of the tree sees it:    *)
(* names, file or directory, and file contents.                            *)
(***************************************************************************)
RECURSIVE Shape(_, _)
Shape(f, p) ==
    LET st == stat(f, p) IN
    IF st = {} THEN [kind |-> "absent", content |-> <<>>, kids |-> <<>>]
    ELSE LET q == Only(st) IN
         IF f[q].kind = "dir"
         THEN [kind |-> "dir", content |-> <<>>,
               kids |-> [n \in {ChildNames(f, q)[i] : i \in 1..Len(ChildNames(f, q))}
                           |-> Shape(f, Append(p, n))]]
         ELSE [kind |-> "file", content |-> f[q].content, kids |-> <<>>]

CopyDest == Append(last.dst, Last(last.src))

\* every entry the walk of the source meets can be stat'ed: no dangling link,
\* and no link that leads back to a directory it is beneath
AllStatable ==
    /\ stat(last.pre, last.src) # {}
    /\ \A q \in Reach(last.pre, lstat(last.pre, last.src)) :
          /\ stat(last.pre, q) # {}
          /\ last.pre[q].kind = "link" => q \notin Reach(last.pre, stat(last.pre, q))

\* nothing is at the destination path before the call
FreshDest == lstat(last.pre, CopyDest) = {}

C3_MkdirFails == mkdir(last.pre, CopyDest, Dir(TRUE, TRUE)).ret # 0

C3_SubdirUnreadable ==
    \E q \in Reach(last.pre, stat(last.pre, last.src)) :
        last.pre[q].kind = "dir" /\ ~last.pre[q].r

\* C3: copy_item of a directory returns FALSE when creating the destination
\* directory fails (the name exists already, or the destination directory is
\* not writable) or a source directory cannot be opened for enumeration.
\* Stated for sources whose entries can all be stat'ed and for a destination
\* path other than the source itself.
C3_CopyFailureReported ==
    (Returned("copy_item") /\ S_ISDIR(last.pre, stat(last.pre, last.src))
       /\ AllStatable /\ stat(last.pre, CopyDest) # stat(last.pre, last.src)
       /\ (C3_MkdirFails \/ C3_SubdirUnreadable))
    => ~last.ret

\* C4: after copy_item(X, D) has returned TRUE, the tree at D/basename(X) has
\* the shape and the file contents of X.  Stated for sources whose entries can
\* all be stat'ed and for a destination path at which nothing was before.
C4_RoundTrip ==
    (Returned("copy_item") /\ last.ret /\ AllStatable /\ FreshDest)
    => Shape(fs, CopyDest) = Shape(last.pre, last.src)

\* C5 as claimed: whenever remove is called on an entry, nothing is left
\* beneath that entry.
C5_NeverAttemptsNonEmpty ==
    last.op = "delete_item" => \A i \in 1..Len(last.log) : ~last.log[i].nonempty

\* C5, amended: remove is called on a directory the walk could open only once
\* nothing is left beneath it; on a directory it could not open (FTW_DNR) it is
\* called without a descent, and then fails if entries are left.  No entry is
\* ever removed while it holds entries.
C5_PostOrder ==
    last.op = "delete_item" =>
        /\ \A i \in 1..Len(last.log) :
              last.log[i].nonempty => (last.log[i].flag = "FTW_DNR" /\ Failed(i))
        /\ \A q \in DOMAIN fs : q # Root => Front(q) \in DOMAIN fs

C5_Witness ==
    /\ Returned("delete_item")
    /\ \E i \in 1..Len(last.log) :
          /\ last.log[i].flag = "FTW_DP" /\ ~Failed(i)
          /\ Len(last.log[i].path) = 2
          /\ \E j \in 1..(i - 1) : ProperAncestor(last.log[i].path, last.log[j].path)

\* C6: during and after delete_item every node outside the tree it was given
\* is as it was, nothing is created, and a symbolic link of the tree is removed
\* as a link: its target stays.
C6_DeleteFrame ==
    last.op = "delete_item" =>
        /\ DOMAIN fs \subseteq DOMAIN last.pre
        /\ \A q \in DOMAIN last.pre \ TreeBefore : q \in DOMAIN fs /\ fs[q] = last.pre[q]

C6_Witness ==
    /\ Returned("delete_item") /\ last.ret
    /\ \E q \in TreeBefore :
          /\ last.pre[q].kind = "link"
          /\ q \notin DOMAIN fs
          /\ \E t \in stat(last.pre, last.pre[q].target) :
                /\ t \notin TreeBefore
                /\ Subtree(last.pre, t) # {t}
                /\ Subtree(fs, t) = Subtree(last.pre, t)

\* C7: when a call returns, with success or with failure, as many handles are
\* open as when it started.  Stated for calls on a source whose entries can all
\* be stat'ed.
C7_HandlesReleased ==
    (pc = "done" /\ AllStatable) => handles = last.h0

\* C8: no entry of the returned list is one whose stat failed.
C8_FailSoftListing ==
    Returned("get_directory_contents") =>
        \A i \in 1..Len(last.out) : stat(last.pre, last.out[i].path) # {}

\* what get_directory_contents returns for a directory with no entries
EmptyListing == get_directory_contents((Root :> Dir(TRUE, TRUE)), Root, 0).list

\* C9: what get_directory_contents returns when the directory cannot be opened
\* differs from what it returns for an empty directory.
C9_OpenFailureSurfaced ==
    (Returned("get_directory_contents") /\ opendir(last.pre, last.src) = {})
    => last.out # EmptyListing

\* the children of the listed directory
ListedDir == Only(opendir(last.pre, last.src))

Children(f, d) == {q \in DOMAIN f : q # Root /\ Front(q) = d}

ExactlyTheChildren ==
    /\ Len(last.out) = Cardinality(Children(last.pre, ListedDir))
    /\ \A q \in Children(last.pre, ListedDir) :
          \E i \in 1..Len(last.out) :
              last.out[i].name = Last(q) /\ last.out[i].path = Append(last.src, Last(q))
    /\ \A i \in 1..Len(last.out) : last.out[i].name \notin {".", ".."}

\* a child is a directory when its node is one, or is a link that leads to one
LeadsToDir(f, q) ==
    \/ f[q].kind = "dir"
    \/ f[q].kind = "link" /\ \E t \in stat(f, f[q].target) : f[t].kind = "dir"

\* C10 as claimed: exactly one entry per child, none for "." and "..", and
\* is_dir is TRUE exactly for the children that are themselves directories.
C10_ListingExactOwnType ==
    (Returned("get_directory_contents") /\ opendir(last.pre, last.src) # {}) =>
        /\ ExactlyTheChildren
        /\ \A i \in 1..Len(last.out) :
              last.out[i].is_dir
                  <=> last.pre[Append(ListedDir, last.out[i].name)].kind = "dir"

\* C10, amended: exactly one entry per child, none for "." and "..", and is_dir
\* is TRUE exactly for the children that are directories or symbolic links
\* leading to a directory.
C10_ListingExact ==
    (Returned("get_directory_contents") /\ opendir(last.pre, last.src) # {}) =>
        /\ ExactlyTheChildren
        /\ \A i \in 1..Len(last.out) :
              last.out[i].is_dir <=> LeadsToDir(last.pre, Append(ListedDir, last.out[i].name))

C10_Witness ==
    /\ Returned("get_directory_contents")
    /\ opendir(last.pre, last.src) # {}
    /\ Len(last.out) = 2
    /\ \E i \in 1..2 :
          last.out[i].is_dir /\ last.pre[Append(ListedDir, last.out[i].name)].kind = "link"
    /\ \E i \in 1..2 : ~last.out[i].is_dir

(***************************************************************************)
(* The archive of a tree.  ArchiveNames is the set of entry names the tree *)
(* at path p calls for under the archive-internal name it is given: the    *)
(* name and "/" for a directory, followed by its entries' names; the name  *)
(* for a file.  The tree is read as stat shows it.                         *)
(***************************************************************************)
RECURSIVE ArchiveNames(_, _, _)
ArchiveNames(f, p, name) ==
    LET st == stat(f, p) IN
    IF S_ISDIR(f, st)
    THEN {Append(name, "/")}
         \cup UNION {ArchiveNames(f, Append(p, ChildNames(f, Only(st))[i]),
                                  name \o <<"/", ChildNames(f, Only(st))[i]>>)
                     : i \in 1..Len(ChildNames(f, Only(st)))}
    ELSE {name}

\* the entries of the archive at the destination path after the call
Written == zips[Only(stat(fs, last.dst))]

WrittenNames == {Written[i].name : i \in 1..Len(Written)}

\* C11: the archive zip_item has written holds exactly one entry for the
\* source directory ("top/"), one for every subdirectory ("top/<path>/") and
\* one for every file ("top/<path>"), top being the source's base name: none
\* is missing, none is extra (what an archive at that path held before is
\* gone), every name starts with top; for a file source it holds the one entry
\* named by the base name.  Stated for sources whose entries can all be
\* stat'ed.
C11_ArchiveContainment ==
    (Returned("zip_item") /\ last.ret /\ AllStatable) =>
        /\ stat(fs, last.dst) # {}
        /\ Only(stat(fs, last.dst)) \in DOMAIN zips
        /\ WrittenNames = ArchiveNames(last.pre, last.src, <<Last(last.src)>>)
        /\ Len(Written) = Cardinality(WrittenNames)
        /\ \A i \in 1..Len(Written) :
              /\ Head(Written[i].name) = Last(last.src)
              /\ Written[i].dir <=> Last(Written[i].name) = "/"

\* a file or a directory the walk of the source meets cannot be read
ZipSourceUnreadable ==
    \E q \in Reach(last.pre, stat(last.pre, last.src)) : ~last.pre[q].r

\* the archive cannot be written at the destination path
ZipDestUnwritable ==
    LET par == stat(last.pre, Front(last.dst)) IN
    \/ ~S_ISDIR(last.pre, par)
    \/ ~last.pre[Only(par)].w
    \/ S_ISDIR(last.pre, stat(last.pre, last.dst))

\* C12: zip_item returns FALSE when a source file or a source directory cannot
\* be read during the walk, or the destination cannot be written; it returns
\* TRUE only when the archive holds an entry for every entry of the source
\* tree.  Stated for sources whose entries can all be stat'ed.
C12_ZipFailureReported ==
    (Returned("zip_item") /\ AllStatable) =>
        /\ (ZipSourceUnreadable \/ ZipDestUnwritable) => ~last.ret
        /\ last.ret => /\ stat(fs, last.dst) # {}
                       /\ Only(stat(fs, last.dst)) \in DOMAIN zips
                       /\ ArchiveNames(last.pre, last.src, <<Last(last.src)>>)
                              \subseteq WrittenNames

(***************************************************************************)
(* Moves and renames.  RelTree is the subtree at a physical path, its      *)
(* nodes named relative to that path.                                      *)
(***************************************************************************)
RelTree(f, q) ==
    [r \in {SubSeq(y, Len(q) + 1, Len(y)) : y \in Subtree(f, q)} |-> f[q \o r]]

MoveDest == Append(last.dst, Last(last.src))

\* the item is at physical path n with the subtree the source had, the source
\* path names nothing, and nothing else has changed
MovedTo(n) ==
    LET q == Only(lstat(last.pre, last.src))
        U == DOMAIN last.pre \ (Subtree(last.pre, q) \cup Subtree(last.pre, n))
    IN  /\ n \in DOMAIN fs
        /\ RelTree(fs, n) = RelTree(last.pre, q)
        /\ lstat(fs, last.src) = {}
        /\ DOMAIN fs = U \cup Subtree(fs, n)
        /\ \A x \in U : fs[x] = last.pre[x]

\* C13 as claimed: on success the item is at destination_dir/basename(source)
\* with its subtree and no longer at the source path; when rename fails, as it
\* does across volumes, move_item returns FALSE and nothing has changed.
C13_MoveIsRename ==
    Returned("move_item") =>
        /\ last.xdev => ~last.ret
        /\ ~last.ret => fs = last.pre
        /\ last.ret => /\ lstat(fs, MoveDest) # {}
                       /\ MovedTo(Only(lstat(fs, MoveDest)))

\* the destination path names the source entry itself
MoveOntoItself == lstat(last.pre, MoveDest) = lstat(last.pre, last.src)

\* C13, amended: as claimed when destination_dir/basename(source) is not the
\* source entry itself; when it is (the destination directory is the one the
\* source is in) move_item returns TRUE and nothing has changed.
C13_MoveIsRenameUnlessSame ==
    Returned("move_item") =>
        /\ last.xdev => ~last.ret
        /\ ~last.ret => fs = last.pre
        /\ (last.ret /\ MoveOntoItself) => fs = last.pre
        /\ (last.ret /\ ~MoveOntoItself) =>
              /\ lstat(fs, MoveDest) # {}
              /\ MovedTo(Only(lstat(fs, MoveDest)))

C13_Witness ==
    /\ Returned("move_item") /\ last.ret /\ ~MoveOntoItself
    /\ Cardinality(Subtree(fs, Only(lstat(fs, MoveDest)))) >= 2
    /\ last.src \notin DOMAIN fs

(***************************************************************************)
(* Creation.                                                               *)
(***************************************************************************)
CreatePath == Append(last.dst, last.name[1])

Creation == Returned("create_file_item") \/ Returned("create_directory_item")

\* what the creation makes: an empty file, or an empty directory
Fresh == IF last.op = "create_file_item" THEN File(<<>>) ELSE Dir(TRUE, TRUE)

\* C14: when an entry of that name is in the parent already, create_file_item
\* and create_directory_item return FALSE and nothing has changed; a creation
\* in a writable parent without such an entry returns TRUE and adds the empty
\* file or directory and nothing else; so a creation called twice with the same
\* name succeeds the first time and fails the second, the parent then holding
\* the one entry the first call made, as it made it.
C14_ExclusiveCreation ==
    Creation =>
        /\ CreatePath \in DOMAIN last.pre => (~last.ret /\ fs = last.pre)
        /\ (CreatePath \notin DOMAIN last.pre /\ last.pre[last.dst].w) =>
              (last.ret /\ fs = With(last.pre, CreatePath, Fresh))
        /\ ~last.ret => fs = last.pre
        /\ (last.nth = 2 /\ last.first) =>
              /\ ~last.ret
              /\ fs = last.pre
              /\ fs[CreatePath] = Fresh
              /\ Cardinality({q \in Children(fs, last.dst) : Last(q) = last.name[1]}) = 1

C14_Witness ==
    /\ Returned("create_file_item")
    /\ last.nth = 2 /\ last.first /\ ~last.ret
    /\ fs[CreatePath].kind = "file"

(***************************************************************************)
(* rename_item.                                                            *)
(***************************************************************************)
RenameParent == Front(last.src)

\* C18: on success the item is at dirname(old_path)/new_name, a direct child
\* of the directory it was in, with its subtree, and no longer at old_path;
\* nothing else has changed, so no entry is created, replaced or removed in
\* any other directory; on failure nothing has changed.  Stated for a new name
\* other than the one the item has.
C18_RenameWithinParent ==
    (Returned("rename_item") /\ last.name # <<Last(last.src)>>) =>
        /\ ~last.ret => fs = last.pre
        /\ last.ret =>
              /\ lstat(fs, RenameParent \o last.name) # {}
              /\ MovedTo(Only(lstat(fs, RenameParent \o last.name)))
              /\ Front(Only(lstat(fs, RenameParent \o last.name))) = RenameParent

(***************************************************************************)
(* The copy of one file.                                                   *)
(***************************************************************************)
\* the source of the copy is a file; SrcFile is its node
FileCopy ==
    /\ Returned("copy_item")
    /\ \E s \in stat(last.pre, last.src) : last.pre[s].kind = "file"

SrcFile == Only(stat(last.pre, last.src))

\* the file the destination path is opened as
DstFile == Only(open_wr(last.pre, CopyDest).fd)

\* both files can be opened, no read fails, and the disk takes every block
\* read, so that every write is whole and the last read meets the end
CompleteTransfer ==
    /\ last.pre[SrcFile].r
    /\ open_wr(last.pre, CopyDest).fd # {}
    /\ SrcFile \notin last.env.eio
    /\ last.env.quota >= Len(last.pre[SrcFile].content)

\* C15: the copy of a file returns TRUE exactly when the transfer was
\* complete, and FALSE after a short write or a read error; after TRUE the
\* destination file holds the content the source had, whatever it held before.
C15_FileCopyComplete ==
    FileCopy =>
        /\ last.ret <=> CompleteTransfer
        /\ last.ret => fs[DstFile].content = last.pre[SrcFile].content

(***************************************************************************)
(* The copy of a directory, child by child.                                *)
(***************************************************************************)
SrcKids ==
    LET q == Only(stat(last.pre, last.src)) IN
    {ChildNames(last.pre, q)[i] : i \in 1..Len(ChildNames(last.pre, q))}

\* the child named c is not at the destination as it is in the source
ChildFailed(c) ==
    Shape(fs, Append(CopyDest, c)) # Shape(last.pre, Append(last.src, c))

\* the blocks of the files the walk of the source meets
RECURSIVE Blocks(_, _)
Blocks(f, S) ==
    IF S = {} THEN 0
    ELSE LET q == CHOOSE x \in S : TRUE IN Len(f[q].content) + Blocks(f, S \ {q})

\* nothing stands in the way of the copy of the child named c: the destination
\* directory can be made and written, everything in the child can be read, its
\* directories (whose mode the copies get) can be written, and the disk has
\* room for the whole source
Copyable(c) ==
    /\ mkdir(last.pre, CopyDest, last.pre[Only(stat(last.pre, last.src))]).ret = 0
    /\ last.pre[Only(stat(last.pre, last.src))].r
    /\ last.pre[Only(stat(last.pre, last.src))].w
    /\ \A q \in Reach(last.pre, lstat(last.pre, Append(last.src, c))) :
          /\ last.pre[q].r /\ q \notin last.env.eio
          /\ last.pre[q].kind = "dir" => last.pre[q].w
    /\ last.env.quota >= Blocks(last.pre, Reach(last.pre, lstat(last.pre, last.src)))

\* the destination directory is neither the source nor beneath it
DestOutside == last.dst \notin Reach(last.pre, lstat(last.pre, last.src))

\* C16: when the copy of a child of the source directory has failed, every
\* other child that can be copied is at the destination all the same, and
\* copy_item returns FALSE.  Stated for readable source directories whose
\* entries can all be stat'ed and a destination outside the source at which
\* nothing was before.
C16_BestEffortSiblings ==
    (Returned("copy_item") /\ S_ISDIR(last.pre, stat(last.pre, last.src))
       /\ last.pre[Only(stat(last.pre, last.src))].r
       /\ AllStatable /\ FreshDest /\ DestOutside
       /\ \E c \in SrcKids : ChildFailed(c))
    => /\ ~last.ret
       /\ \A c \in SrcKids : Copyable(c) => ~ChildFailed(c)

C20_SourceUnchanged ==
    Returned("copy_item") =>
        \A q \in Reach(last.pre, lstat(last.pre, last.src)) :
            q \in DOMAIN fs /\ fs[q] = last.pre[q]

(***************************************************************************)
(* Size strings.                                                           *)
(***************************************************************************)
\* the string is a number with one decimal, a space and the unit, and the
\* number is a tenth nearest to size / den
OneDecimal(str, size, den, unit) ==
    \E w \in 0 .. (size \div den + 1), d \in 0 .. 9 :
        /\ str = Dec(w) \o <<".", Digit(d)>> \o <<" ">> \o unit
        /\ 2 * (10 * size - den * (10 * w + d)) <= den
        /\ 2 * (den * (10 * w + d) - 10 * size) <= den

\* C19: format_size gives the integer and " B" below 1024, size / 1024 to one
\* decimal and " KB" below 1024 * 1024, size / (1024 * 1024) to one decimal and
\* " MB" from there on; 500 gives "500 B", 2048 "2.0 KB", 3145728 "3.0 MB"; and
\* in a listing a directory has the empty size string, a file the string
\* format_size gives for its size.
C19_SizeFormatting ==
    /\ Returned("format_size") =>
          /\ last.size < 1024 => last.out = Dec(last.size) \o <<" ", "B">>
          /\ (1024 <= last.size /\ last.size < 1024 * 1024) =>
                OneDecimal(last.out, last.size, 1024, <<"K", "B">>)
          /\ 1024 * 1024 <= last.size =>
                OneDecimal(last.out, last.size, 1024 * 1024, <<"M", "B">>)
          /\ last.size = 500 => last.out = <<"5", "0", "0", " ", "B">>
          /\ last.size = 2048 => last.out = <<"2", ".", "0", " ", "K", "B">>
          /\ last.size = 3145728 => last.out = <<"3", ".", "0", " ", "M", "B">>
    /\ Returned("get_directory_contents") =>
          \A i \in 1..Len(last.out) :
              /\ last.out[i].is_dir => last.out[i].size_formatted = <<>>
              /\ (~last.out[i].is_dir /\ last.out[i].type # NULL) =>
                    last.out[i].size_formatted
                        = format_size(st_size(last.pre[Only(stat(last.pre, last.out[i].path))]))

C19_Witness ==
    /\ Returned("format_size")
    /\ last.size = 1076
    /\ last.out = <<"1", ".", "1", " ", "K", "B">>

(***************************************************************************)
(* Sources whose metadata cannot be read.                                  *)
(***************************************************************************)
\* nothing has been made at path p, and what was there is as it was
Untouched(p) ==
    /\ lstat(fs, p) \subseteq lstat(last.pre, p)
    /\ \A q \in lstat(fs, p) : fs[q] = last.pre[q]

\* the children of the source directory that stat fails on
UnstatableKids ==
    IF S_ISDIR(last.pre, stat(last.pre, last.src))
          /\ last.pre[Only(stat(last.pre, last.src))].r
    THEN {c \in SrcKids : stat(last.pre, Append(last.src, c)) = {}}
    ELSE {}

\* C21: when stat fails on the source path, or on a child the recursion meets
\* (a dangling symbolic link, say), copy_item returns FALSE and makes no file
\* and no directory at the destination for that item.  Stated for a
\* destination directory that is neither the source nor beneath it.
C21_UnstatableFailsCleanly ==
    (Returned("copy_item") /\ DestOutside) =>
       /\ stat(last.pre, last.src) = {} => (~last.ret /\ Untouched(CopyDest))
       /\ \A c \in UnstatableKids : ~last.ret /\ Untouched(Append(CopyDest, c))

====
